---- MODULE Spec2Model ----
(***************************************************************************)
(* Agent plugin loading and command dispatch of claude-memory-bank.        *)
(*                                                                         *)
(* The loaders (src/agent_loader.py, src/utils/agent_loader.py), the       *)
(* start-up enumeration and the request route of src/web_interface.py and  *)
(* the dispatcher of src/standalone_agent.py, as a state machine.  The     *)
(* filesystem is the environment: every call reads the node (directory,    *)
(* file or nothing) that lies at its path at the moment of the call.       *)
(***************************************************************************)
EXTENDS Integers, Sequences, FiniteSets, TLC

VARIABLES
    fs,             \* the filesystem: path -> node
    loaded_agents,  \* web_interface.loaded_agents: name -> agent record
    loader,         \* agent_loader._loader: the AgentLoader singleton, or None
    sys_modules,    \* sys.modules, restricted to the names the loaders assign
    init_calls,     \* path -> number of initialize invocations so far
    next_id,        \* identity of the next object (module or record) created
    calls,          \* number of operations performed
    last,           \* the last operation: its inputs and what its caller saw
    threads         \* concurrent callers: thread -> its call, position and locals

vars ==
    <<fs, loaded_agents, loader, sys_modules, init_calls, next_id, calls, last, threads>>

----------------------------------------------------------------------------
(* Bounds *)

MaxCalls == 2

----------------------------------------------------------------------------
(* Python values read from the filesystem *)

RequiredFields == <<"name", "description", "version">>
OptionalFunctions == <<"initialize", "cleanup", "get_status">>
RequiredAttributes == <<"AGENT_NAME", "AGENT_DESCRIPTION", "AGENT_VERSION">>

Range(s) == {s[i] : i \in 1..Len(s)}

NoKeys == [k \in {} |-> ""]

\* What config.json holds.  kind: absent (no file), invalid (not JSON), or the
\* JSON type of the parsed document.  An object keeps its key -> value map in
\* get; a list keeps its elements and a string the field names that occur in it
\* as substrings in items.
ConfigAbsent == [kind |-> "absent", items |-> {}, get |-> NoKeys]
ConfigInvalid == [kind |-> "invalid", items |-> {}, get |-> NoKeys]
JsonScalar == [kind |-> "scalar", items |-> {}, get |-> NoKeys]
JsonObject(m) == [kind |-> "object", items |-> {}, get |-> m]
JsonList(s) == [kind |-> "list", items |-> s, get |-> NoKeys]
JsonString(s) == [kind |-> "string", items |-> s, get |-> NoKeys]

Names == {"demo", "other"}

Manifests ==
    {JsonObject([name |-> n, description |-> "d", version |-> "1.0.0"]) : n \in Names}
    \cup {JsonObject([name |-> "demo", description |-> "d", version |-> "1.0.0",
                      settings |-> "s"]),
          JsonObject([name |-> "demo", description |-> "d"]),
          JsonObject([name |-> "demo", version |-> "1.0.0"]),
          JsonObject([description |-> "d", version |-> "1.0.0"]),
          JsonObject(NoKeys),
          JsonList({"name", "description", "version"}),
          JsonList({"name", "description"}),
          JsonString({"name", "description", "version"}),
          JsonScalar}

ConfigFiles == {ConfigAbsent, ConfigInvalid} \cup Manifests

\* An agent source file.  raises: executing its top level raises (after the
\* definitions in defs were made); defs: the top-level names it defines; consts: the values of its AGENT_* constants;
\* callable_pc: process_command is a function; init_raises: initialize raises.
NoSource ==
    [exists |-> FALSE, raises |-> FALSE, defs |-> {}, consts |-> NoKeys,
     callable_pc |-> FALSE, init_raises |-> FALSE]

Source(raises, defs, consts, callable_pc, init_raises) ==
    [exists |-> TRUE, raises |-> raises, defs |-> defs, consts |-> consts,
     callable_pc |-> callable_pc, init_raises |-> init_raises]

HookSets ==
    {{}, {"initialize"}, {"cleanup", "get_status"},
     {"initialize", "cleanup", "get_status"}}

FullConsts(n) == [AGENT_NAME |-> n, AGENT_DESCRIPTION |-> "d", AGENT_VERSION |-> "1.0.0"]

ConstSets ==
    {NoKeys, FullConsts("demo"), FullConsts("other"),
     [AGENT_NAME |-> "demo", AGENT_DESCRIPTION |-> "d"],
     [AGENT_DESCRIPTION |-> "d", AGENT_VERSION |-> "1.0.0"]}

\* Sources of directory-form agents (agent.py): no AGENT_* constants.
DirSources ==
    {NoSource, Source(TRUE, {"process_command"}, NoKeys, TRUE, FALSE),
     Source(FALSE, {"process_command"}, NoKeys, FALSE, FALSE)}
    \cup {Source(FALSE, h \cup pc, NoKeys, pc # {}, r) :
            h \in HookSets, pc \in {{}, {"process_command"}}, r \in BOOLEAN}

\* Sources of file-form agents.
FileSources ==
    {Source(TRUE, {}, NoKeys, FALSE, FALSE)}
    \cup {Source(FALSE, h \cup pc, k, pc # {}, r) :
            h \in {{}, {"initialize"}, {"initialize", "cleanup", "get_status"}},
            pc \in {{}, {"process_command"}}, k \in ConstSets, r \in BOOLEAN}

WellFormed(src) ==
    /\ (src.callable_pc => "process_command" \in src.defs)
    /\ (src.init_raises => "initialize" \in src.defs)

\* A node of the filesystem: a directory (with its config.json and agent.py),
\* a regular file (an agent source), or nothing.
Missing == [type |-> "none", config |-> ConfigAbsent, code |-> NoSource]
DirNode(cfg, src) == [type |-> "dir", config |-> cfg, code |-> src]
FileNode(src) == [type |-> "file", config |-> ConfigAbsent, code |-> src]

FileNodes == {FileNode(s) : s \in {x \in FileSources : WellFormed(x)}}

ValidManifest(n) == JsonObject([name |-> n, description |-> "d", version |-> "1.0.0"])
ValidSource(consts) ==
    Source(FALSE, {"process_command", "initialize"}, consts, TRUE, FALSE)

\* Directories: every config.json with a source that is valid, absent or
\* raising, and every source with a config.json that passes the field check.
DirNodes ==
    {DirNode(c, s) : c \in ConfigFiles,
                     s \in {ValidSource(NoKeys), NoSource,
                            Source(TRUE, {"process_command"}, NoKeys, TRUE, FALSE)}}
    \cup {DirNode(c, s) : c \in {ValidManifest("demo"), ValidManifest("other"),
                                  JsonList({"name", "description", "version"}),
                                  JsonString({"name", "description", "version"})},
                          s \in {x \in DirSources : WellFormed(x)}}

----------------------------------------------------------------------------
(* Paths *)

\* A path, with the parts os.path.dirname and os.path.splitext(basename) give.
Path(d, stem, ext) ==
    [full |-> d \o "/" \o stem \o ext, dir |-> d, stem |-> stem]

AgentsDir == "../AGENTS"
DirNames == {"alpha", "beta"}

\* os.path.join(agents_dir, agent_dir)
AgentPath(d) == Path(AgentsDir, d, "")

FilePaths == {Path(d, "foo", ".py") : d \in {"x", "y"}}
Paths == {AgentPath(d) : d \in DirNames} \cup FilePaths

\* os.path.join(a, b)
Join(a, b) == a \o "/" \o b

\* The names under which the loaders put modules into sys.modules.
ModuleNames == {"agent_module"} \cup {p.stem : p \in FilePaths}

----------------------------------------------------------------------------
(* Agent records, modules, errors *)

NoAgent ==
    [id |-> 0, config |-> ConfigAbsent, dir |-> "", keys |-> {},
     process_command |-> [unit |-> 0, callable |-> FALSE]]

\* An entry of sys.modules: the module object (id) and the file it was made from.
NoModule == [id |-> 0, file |-> ""]

NoError == [type |-> "None", msg |-> ""]
ValueError(msg) == [type |-> "ValueError", msg |-> msg]
TypeError(msg) == [type |-> "TypeError", msg |-> msg]

\* Failure texts of the agent's own code.
ExecFailure == "exec failed"
InitFailure == "init failed"

\* What a load hands to its caller: the record or the exception, together with
\* the steps it went through and sys.modules as it leaves it.
Returned(agent, trace, mods) ==
    [ok |-> TRUE, agent |-> agent, err |-> NoError,
     trace |-> Append(trace, "return"), mods |-> mods, init |-> <<>>]
Raised(err, trace, mods) ==
    [ok |-> FALSE, agent |-> NoAgent, err |-> err,
     trace |-> Append(trace, "raise"), mods |-> mods, init |-> <<>>]

\* agent["initialize"](agent): the arguments of the call, each the identity of
\* the object passed, and the keys the record holds when the call is made.
InitCall(agent) == [args |-> <<agent.id>>, keys |-> agent.keys]

\* The load r, in which initialize was called on the record `agent`.
Invoked(r, agent) == [r EXCEPT !.init = <<InitCall(agent)>>]

\* `field in config` of Python, for the JSON types that support it.
Contains(config, field) ==
    IF config.kind = "object" THEN field \in DOMAIN config.get
    ELSE field \in config.items

\* The required fields `field not in config` finds missing, in order.
MissingFields(config) ==
    SelectSeq(RequiredFields, LAMBDA f : ~Contains(config, f))

MissingAttributes(src) ==
    SelectSeq(RequiredAttributes, LAMBDA a : a \notin DOMAIN src.consts)

\* The optional functions hasattr finds on the module, as record keys.
OptionalKeys(src) == {f \in Range(OptionalFunctions) : f \in src.defs}

----------------------------------------------------------------------------
(* src/agent_loader.py *)

\* Mutant of LoadDirModule: a failure of initialize is swallowed and the
\* record is returned all the same.
LoadDirModuleInitNonFatal(agent_dir, node, mods, id, trace) ==
    LET agent_py_path == Join(agent_dir.full, "agent.py")
        src == node.code
        wrap(msg) == ValueError("Error loading agent module: " \o msg)
        mods1 == [mods EXCEPT !["agent_module"] = [id |-> id, file |-> agent_py_path]]
        t1 == trace \o <<"sys.modules", "exec_module">>
        t2 == Append(t1, "hasattr:process_command")
        agent == [id |-> id, config |-> node.config, dir |-> agent_dir.full,
                  keys |-> {"config", "dir", "process_command"} \cup OptionalKeys(src),
                  process_command |-> [unit |-> id, callable |-> src.callable_pc]]
        t3 == t2 \o <<"assemble", "attach_hooks">>
    IN  IF src.raises THEN Raised(wrap(ExecFailure), t1, mods1)
        ELSE IF "process_command" \notin src.defs
        THEN Raised(wrap("Missing required function 'process_command' in agent module: "
                         \o agent_py_path), t2, mods1)
        ELSE IF "initialize" \notin agent.keys THEN Returned(agent, t3, mods1)
        ELSE Invoked(Returned(agent, Append(t3, "initialize"), mods1), agent)

\* Mutant of LoadDirModule: initialize is called on the record as soon as it
\* is assembled, before the optional functions are attached to it.
LoadDirModuleInitEarly(agent_dir, node, mods, id, trace) ==
    LET agent_py_path == Join(agent_dir.full, "agent.py")
        src == node.code
        wrap(msg) == ValueError("Error loading agent module: " \o msg)
        mods1 == [mods EXCEPT !["agent_module"] = [id |-> id, file |-> agent_py_path]]
        t1 == trace \o <<"sys.modules", "exec_module">>
        t2 == Append(t1, "hasattr:process_command")
        bare == [id |-> id, config |-> node.config, dir |-> agent_dir.full,
                 keys |-> {"config", "dir", "process_command"},
                 process_command |-> [unit |-> id, callable |-> src.callable_pc]]
        agent == [bare EXCEPT !.keys = @ \cup OptionalKeys(src)]
    IN  IF src.raises THEN Raised(wrap(ExecFailure), t1, mods1)
        ELSE IF "process_command" \notin src.defs
        THEN Raised(wrap("Missing required function 'process_command' in agent module: "
                         \o agent_py_path), t2, mods1)
        ELSE IF "initialize" \notin src.defs
        THEN Returned(agent, t2 \o <<"assemble", "attach_hooks">>, mods1)
        ELSE IF src.init_raises
        THEN Invoked(Raised(wrap(InitFailure), t2 \o <<"assemble", "initialize">>, mods1),
                     bare)
        ELSE Invoked(Returned(agent, t2 \o <<"assemble", "initialize", "attach_hooks">>,
                              mods1), bare)

\* The try block of load_agent_from_dir (lines 114-147): every exception
\* raised inside it, the missing-function ValueError included, is caught and
\* raised again as ValueError("Error loading agent module: " + str(e)).
LoadDirModule(agent_dir, node, mods, id, trace) ==
    LET agent_py_path == Join(agent_dir.full, "agent.py")
        src == node.code
        wrap(msg) == ValueError("Error loading agent module: " \o msg)
        \* sys.modules[spec.name] = agent_module, spec.name = "agent_module"
        mods1 == [mods EXCEPT !["agent_module"] = [id |-> id, file |-> agent_py_path]]
        t1 == trace \o <<"sys.modules", "exec_module">>
        t2 == Append(t1, "hasattr:process_command")
        agent == [id |-> id, config |-> node.config, dir |-> agent_dir.full,
                  keys |-> {"config", "dir", "process_command"} \cup OptionalKeys(src),
                  process_command |-> [unit |-> id, callable |-> src.callable_pc]]
        t3 == t2 \o <<"assemble", "attach_hooks">>
        t4 == Append(t3, "initialize")
    IN  IF src.raises THEN Raised(wrap(ExecFailure), t1, mods1)
        ELSE IF "process_command" \notin src.defs
        THEN Raised(wrap("Missing required function 'process_command' in agent module: "
                         \o agent_py_path), t2, mods1)
        ELSE IF "initialize" \notin agent.keys THEN Returned(agent, t3, mods1)
        ELSE IF src.init_raises THEN Invoked(Raised(wrap(InitFailure), t4, mods1), agent)
        ELSE Invoked(Returned(agent, t4, mods1), agent)

\* load_agent_from_dir(agent_dir), reading `node` at agent_dir, with sys.modules
\* = mods and `id` the identity of the objects it creates.
load_agent_from_dir(agent_dir, node, mods, id) ==
    LET config_path == Join(agent_dir.full, "config.json")
        config == node.config
        missing == MissingFields(config)
    IN  IF node.type # "dir"
        THEN Raised(ValueError("Agent directory does not exist: " \o agent_dir.full),
                    <<"isdir">>, mods)
        ELSE IF config.kind = "absent"
        THEN Raised(ValueError("Missing config.json in agent directory: "
                               \o agent_dir.full),
                    <<"isdir", "exists:config.json">>, mods)
        ELSE IF config.kind = "invalid"
        THEN Raised(ValueError("Invalid JSON in config file: " \o config_path),
                    <<"isdir", "exists:config.json", "json.load">>, mods)
        ELSE IF config.kind = "scalar"
        THEN \* `field not in config` on a number, a boolean or null
             Raised(TypeError("argument of type 'int' is not iterable"),
                    <<"isdir", "exists:config.json", "json.load", "check_fields">>,
                    mods)
        ELSE IF missing # <<>>
        THEN Raised(ValueError("Missing required field '" \o Head(missing)
                               \o "' in config: " \o config_path),
                    <<"isdir", "exists:config.json", "json.load", "check_fields">>,
                    mods)
        ELSE IF ~node.code.exists
        THEN Raised(ValueError("Missing agent.py in agent directory: "
                               \o agent_dir.full),
                    <<"isdir", "exists:config.json", "json.load", "check_fields",
                      "exists:agent.py">>, mods)
        ELSE LoadDirModule(agent_dir, node, mods, id,
                           <<"isdir", "exists:config.json", "json.load",
                             "check_fields", "exists:agent.py">>)

\* Mutant of load_agent_from_file: the missing-attribute error always names
\* the first required attribute, whichever one is missing.
load_agent_from_file_NamesFirst(agent_file, node, mods, id) ==
    LET src == node.code
        wrap(msg) == ValueError("Error loading agent module: " \o msg)
        mods1 == [mods EXCEPT ![agent_file.stem] = [id |-> id, file |-> agent_file.full]]
        t2 == <<"isfile", "sys.modules", "exec_module", "hasattr:AGENT_*">>
        t3 == Append(t2, "hasattr:process_command")
        agent == [id |-> id,
                  config |-> JsonObject([name |-> src.consts["AGENT_NAME"],
                                         description |-> src.consts["AGENT_DESCRIPTION"],
                                         version |-> src.consts["AGENT_VERSION"]]),
                  dir |-> agent_file.dir,
                  keys |-> {"config", "dir", "process_command"} \cup OptionalKeys(src),
                  process_command |-> [unit |-> id, callable |-> src.callable_pc]]
        t4 == t3 \o <<"assemble", "attach_hooks">>
    IN  IF node.type # "file"
        THEN Raised(ValueError("Agent file does not exist: " \o agent_file.full),
                    <<"isfile">>, mods)
        ELSE IF src.raises
        THEN Raised(wrap(ExecFailure), <<"isfile", "sys.modules", "exec_module">>, mods1)
        ELSE IF MissingAttributes(src) # <<>>
        THEN Raised(wrap("Missing required attribute '" \o RequiredAttributes[1]
                         \o "' in agent module: " \o agent_file.full), t2, mods1)
        ELSE IF "process_command" \notin src.defs
        THEN Raised(wrap("Missing required function 'process_command' in agent module: "
                         \o agent_file.full), t3, mods1)
        ELSE IF "initialize" \notin agent.keys THEN Returned(agent, t4, mods1)
        ELSE IF src.init_raises
        THEN Invoked(Raised(wrap(InitFailure), Append(t4, "initialize"), mods1), agent)
        ELSE Invoked(Returned(agent, Append(t4, "initialize"), mods1), agent)

\* load_agent_from_file(agent_file): the whole body after the isfile test is
\* one try block whose exceptions are wrapped.
load_agent_from_file(agent_file, node, mods, id) ==
    LET src == node.code
        module_name == agent_file.stem
        wrap(msg) == ValueError("Error loading agent module: " \o msg)
        mods1 == [mods EXCEPT ![module_name] = [id |-> id, file |-> agent_file.full]]
        t1 == <<"isfile", "sys.modules", "exec_module">>
        t2 == Append(t1, "hasattr:AGENT_*")
        t3 == Append(t2, "hasattr:process_command")
        missing == MissingAttributes(src)
        agent == [id |-> id,
                  config |-> JsonObject([name |-> src.consts["AGENT_NAME"],
                                         description |-> src.consts["AGENT_DESCRIPTION"],
                                         version |-> src.consts["AGENT_VERSION"]]),
                  dir |-> agent_file.dir,
                  keys |-> {"config", "dir", "process_command"} \cup OptionalKeys(src),
                  process_command |-> [unit |-> id, callable |-> src.callable_pc]]
        t4 == t3 \o <<"assemble", "attach_hooks">>
        t5 == Append(t4, "initialize")
    IN  IF node.type # "file"
        THEN Raised(ValueError("Agent file does not exist: " \o agent_file.full),
                    <<"isfile">>, mods)
        ELSE IF src.raises THEN Raised(wrap(ExecFailure), t1, mods1)
        ELSE IF missing # <<>>
        THEN Raised(wrap("Missing required attribute '" \o Head(missing)
                         \o "' in agent module: " \o agent_file.full), t2, mods1)
        ELSE IF "process_command" \notin src.defs
        THEN Raised(wrap("Missing required function 'process_command' in agent module: "
                         \o agent_file.full), t3, mods1)
        ELSE IF "initialize" \notin agent.keys THEN Returned(agent, t4, mods1)
        ELSE IF src.init_raises THEN Invoked(Raised(wrap(InitFailure), t5, mods1), agent)
        ELSE Invoked(Returned(agent, t5, mods1), agent)

----------------------------------------------------------------------------
(* src/utils/agent_loader.py *)

\* load_agent_from_file of the utils package: the record is returned as soon
\* as it is assembled; no optional function is attached and none is called.
utils_load_agent_from_file(agent_file, node, mods, id) ==
    LET src == node.code
        module_name == agent_file.stem
        wrap(msg) == ValueError("Error loading agent module: " \o msg)
        mods1 == [mods EXCEPT ![module_name] = [id |-> id, file |-> agent_file.full]]
        t1 == <<"isfile", "sys.modules", "exec_module">>
        t2 == Append(t1, "hasattr:AGENT_*")
        t3 == Append(t2, "hasattr:process_command")
        missing == MissingAttributes(src)
        agent == [id |-> id,
                  config |-> JsonObject([name |-> src.consts["AGENT_NAME"],
                                         description |-> src.consts["AGENT_DESCRIPTION"],
                                         version |-> src.consts["AGENT_VERSION"]]),
                  dir |-> agent_file.dir,
                  keys |-> {"config", "dir", "process_command"},
                  process_command |-> [unit |-> id, callable |-> src.callable_pc]]
    IN  IF node.type # "file"
        THEN Raised(ValueError("Agent file does not exist: " \o agent_file.full),
                    <<"isfile">>, mods)
        ELSE IF src.raises THEN Raised(wrap(ExecFailure), t1, mods1)
        ELSE IF missing # <<>>
        THEN Raised(wrap("Missing required attribute '" \o Head(missing)
                         \o "' in agent module: " \o agent_file.full), t2, mods1)
        ELSE IF "process_command" \notin src.defs
        THEN Raised(wrap("Missing required function 'process_command' in agent module: "
                         \o agent_file.full), t3, mods1)
        ELSE Returned(agent, Append(t3, "assemble"), mods1)

\* Mutant of UtilsLoadDirModule: the record's config is a minimal identity
\* named after the directory instead of the manifest.
UtilsLoadDirModuleNamedByDir(agent_dir, node, mods, id, trace) ==
    LET src == node.code
        wrap(msg) == ValueError("Error loading agent module: " \o msg)
        mods1 == [mods EXCEPT !["agent_module"] =
                     [id |-> id, file |-> Join(agent_dir.full, "agent.py")]]
        t1 == trace \o <<"sys.modules", "exec_module", "hasattr:process_command">>
        agent == [id |-> id,
                  config |-> JsonObject([name |-> agent_dir.stem, description |-> "d",
                                         version |-> "1.0.0"]),
                  dir |-> agent_dir.full,
                  keys |-> {"config", "dir", "process_command"} \cup OptionalKeys(src),
                  process_command |-> [unit |-> id, callable |-> src.callable_pc]]
        t3 == t1 \o <<"assemble", "attach_hooks">>
    IN  IF src.raises \/ "process_command" \notin src.defs
        THEN Raised(wrap(ExecFailure), t1, mods1)
        ELSE IF "initialize" \notin agent.keys THEN Returned(agent, t3, mods1)
        ELSE IF src.init_raises
        THEN Invoked(Raised(wrap(InitFailure), Append(t3, "initialize"), mods1), agent)
        ELSE Invoked(Returned(agent, Append(t3, "initialize"), mods1), agent)

\* The try block of the utils load_agent_from_dir (lines 100-133).
UtilsLoadDirModule(agent_dir, node, mods, id, trace) ==
    LET agent_py_path == Join(agent_dir.full, "agent.py")
        src == node.code
        wrap(msg) == ValueError("Error loading agent module: " \o msg)
        mods1 == [mods EXCEPT !["agent_module"] = [id |-> id, file |-> agent_py_path]]
        t1 == trace \o <<"sys.modules", "exec_module">>
        t2 == Append(t1, "hasattr:process_command")
        agent == [id |-> id, config |-> node.config, dir |-> agent_dir.full,
                  keys |-> {"config", "dir", "process_command"} \cup OptionalKeys(src),
                  process_command |-> [unit |-> id, callable |-> src.callable_pc]]
        t3 == t2 \o <<"assemble", "attach_hooks">>
        t4 == Append(t3, "initialize")
    IN  IF src.raises THEN Raised(wrap(ExecFailure), t1, mods1)
        ELSE IF "process_command" \notin src.defs
        THEN Raised(wrap("Missing required function 'process_command' in agent module: "
                         \o agent_py_path), t2, mods1)
        ELSE IF "initialize" \notin agent.keys THEN Returned(agent, t3, mods1)
        ELSE IF src.init_raises THEN Invoked(Raised(wrap(InitFailure), t4, mods1), agent)
        ELSE Invoked(Returned(agent, t4, mods1), agent)

\* Mutant of utils_load_agent_from_dir: the module is loaded before the
\* required fields of the manifest are looked at.
utils_load_agent_from_dir_ExecFirst(agent_dir, node, mods, id) ==
    LET missing == MissingFields(node.config)
        checks == <<"isdir", "exists:config.json", "json.load", "exists:agent.py">>
        r == LoadDirModule(agent_dir, node, mods, id, checks)
    IN  IF /\ node.type = "dir"
           /\ node.config.kind \in {"object", "list", "string"}
           /\ missing # <<>>
           /\ node.code.exists
        THEN IF ~r.ok THEN r
             ELSE Raised(ValueError("Missing required field '" \o Head(missing)
                                    \o "' in config: "
                                    \o Join(agent_dir.full, "config.json")),
                         SubSeq(r.trace, 1, Len(r.trace) - 1) \o <<"check_fields">>,
                         r.mods)
        ELSE load_agent_from_dir(agent_dir, node, mods, id)

\* Mutant of utils_load_agent_from_dir: the isdir test is left out, the first
\* check is the one for config.json.
utils_load_agent_from_dir_NoDirCheck(agent_dir, node, mods, id) ==
    IF node.type # "dir"
    THEN Raised(ValueError("Missing config.json in agent directory: " \o agent_dir.full),
                <<"exists:config.json">>, mods)
    ELSE load_agent_from_dir(agent_dir, node, mods, id)

\* Mutant of utils_load_agent_from_dir: agent.py is looked for before
\* config.json.
utils_load_agent_from_dir_SourceFirst(agent_dir, node, mods, id) ==
    IF node.type = "dir" /\ ~node.code.exists
    THEN Raised(ValueError("Missing agent.py in agent directory: " \o agent_dir.full),
                <<"isdir", "exists:agent.py">>, mods)
    ELSE load_agent_from_dir(agent_dir, node, mods, id)

utils_load_agent_from_dir(agent_dir, node, mods, id) ==
    LET config_path == Join(agent_dir.full, "config.json")
        config == node.config
        missing == MissingFields(config)
    IN  IF node.type # "dir"
        THEN Raised(ValueError("Agent directory does not exist: " \o agent_dir.full),
                    <<"isdir">>, mods)
        ELSE IF config.kind = "absent"
        THEN Raised(ValueError("Missing config.json in agent directory: "
                               \o agent_dir.full),
                    <<"isdir", "exists:config.json">>, mods)
        ELSE IF config.kind = "invalid"
        THEN Raised(ValueError("Invalid JSON in config file: " \o config_path),
                    <<"isdir", "exists:config.json", "json.load">>, mods)
        ELSE IF config.kind = "scalar"
        THEN Raised(TypeError("argument of type 'int' is not iterable"),
                    <<"isdir", "exists:config.json", "json.load", "check_fields">>,
                    mods)
        ELSE IF missing # <<>>
        THEN Raised(ValueError("Missing required field '" \o Head(missing)
                               \o "' in config: " \o config_path),
                    <<"isdir", "exists:config.json", "json.load", "check_fields">>,
                    mods)
        ELSE IF ~node.code.exists
        THEN Raised(ValueError("Missing agent.py in agent directory: "
                               \o agent_dir.full),
                    <<"isdir", "exists:config.json", "json.load", "check_fields",
                      "exists:agent.py">>, mods)
        ELSE UtilsLoadDirModule(agent_dir, node, mods, id,
                                <<"isdir", "exists:config.json", "json.load",
                                  "check_fields", "exists:agent.py">>)

----------------------------------------------------------------------------
(* Python values and texts of the dispatcher *)

\* A text is the sequence of its characters.
ErrorPrefix ==
    <<"E", "r", "r", "o", "r", " ", "p", "r", "o", "c", "e", "s", "s", "i", "n", "g",
      " ", "c", "o", "m", "m", "a", "n", "d", ":", " ">>

\* A value is a term in prefix form: a sequence of tokens [t, s, n], where a
\* dict of n entries is followed by n (key, value) pairs and a list or tuple
\* of n elements by its n elements.  A dict key is a token of its own: "key"
\* for a str key, "ikey" for an int key.
Tok(t, s, n) == [t |-> t, s |-> s, n |-> n]
PyStr(chars) == <<Tok("str", chars, 0)>>
PyInt(n) == <<Tok("int", <<>>, n)>>
PyNone == <<Tok("none", <<>>, 0)>>
PySet == <<Tok("set", <<>>, 0)>>
PyList(elems) == <<Tok("list", <<>>, Len(elems))>> \o elems
PyDict(n, entries) == <<Tok("dict", <<>>, n)>> \o entries
PyTuple(n, elems) == <<Tok("tuple", <<>>, n)>> \o elems
Key(chars) == <<Tok("key", chars, 0)>>
IntKey(n) == <<Tok("ikey", <<>>, n)>>

TypeOf(v) == v[1].t

Digit == <<"0", "1", "2", "3", "4", "5", "6", "7", "8", "9">>
RECURSIVE Digits(_)
\* str(n) of a natural number.
Digits(n) ==
    IF n < 10 THEN <<Digit[n + 1]>> ELSE Digits(n \div 10) \o <<Digit[(n % 10) + 1]>>
Indent(depth) == [i \in 1..(2 * depth) |-> " "]
RECURSIVE Escape(_)
\* The JSON encoder's escapes inside a string.
Escape(chars) ==
    IF chars = <<>> THEN <<>>
    ELSE (IF Head(chars) \in {"\"", "\\"} THEN <<"\\", Head(chars)>>
          ELSE IF Head(chars) = "\n" THEN <<"\\", "n">>
          ELSE <<Head(chars)>>) \o Escape(Tail(chars))
Quoted(chars) == <<"\"">> \o Escape(chars) \o <<"\"">>

RECURSIVE Dump(_, _, _), DumpItems(_, _, _, _, _)
\* json.dumps(..., indent=2) of the term that starts at toks[pos], nested
\* `depth` levels deep: its text and the position after the term.
Dump(toks, pos, depth) ==
    LET tk == toks[pos]
        \* a tuple is encoded as a list
        open == IF tk.t = "dict" THEN "{" ELSE "["
        close == IF tk.t = "dict" THEN "}" ELSE "]"
    IN  IF tk.t = "int" THEN [text |-> Digits(tk.n), next |-> pos + 1]
        ELSE IF tk.t = "str" THEN [text |-> Quoted(tk.s), next |-> pos + 1]
        ELSE IF tk.t = "none" THEN [text |-> <<"n", "u", "l", "l">>, next |-> pos + 1]
        ELSE IF tk.n = 0 THEN [text |-> <<open, close>>, next |-> pos + 1]
        ELSE LET items == DumpItems(toks, pos + 1, tk.n, depth + 1, tk.t = "dict")
             IN  [text |-> <<open, "\n">> \o items.text \o <<"\n">>
                           \o Indent(depth) \o <<close>>,
                  next |-> items.next]

DumpItems(toks, pos, n, depth, isDict) ==
    LET \* an int key is encoded as the string of its digits
        name == IF toks[pos].t = "ikey" THEN Digits(toks[pos].n) ELSE toks[pos].s
        key == IF isDict THEN Quoted(name) \o <<":", " ">> ELSE <<>>
        v == Dump(toks, IF isDict THEN pos + 1 ELSE pos, depth)
        one == Indent(depth) \o key \o v.text
    IN  IF n = 1 THEN [text |-> one, next |-> v.next]
        ELSE LET rest == DumpItems(toks, v.next, n - 1, depth, isDict)
             IN  [text |-> one \o <<",", "\n">> \o rest.text, next |-> rest.next]

RECURSIVE ReprChars(_)
\* The escapes of repr() inside a str that holds no single quote.
ReprChars(chars) ==
    IF chars = <<>> THEN <<>>
    ELSE (IF Head(chars) = "\\" THEN <<"\\", "\\">>
          ELSE IF Head(chars) = "\n" THEN <<"\\", "n">>
          ELSE <<Head(chars)>>) \o ReprChars(Tail(chars))

RECURSIVE Repr(_, _), ReprItems(_, _, _, _)
\* repr() of the term that starts at toks[pos]: its text and the position
\* after the term.
Repr(toks, pos) ==
    LET tk == toks[pos]
        open == IF tk.t = "dict" THEN "{" ELSE IF tk.t = "list" THEN "[" ELSE "("
        close == IF tk.t = "dict" THEN "}" ELSE IF tk.t = "list" THEN "]" ELSE ")"
    IN  IF tk.t \in {"int", "ikey"} THEN [text |-> Digits(tk.n), next |-> pos + 1]
        ELSE IF tk.t \in {"str", "key"}
        THEN [text |-> <<"'">> \o ReprChars(tk.s) \o <<"'">>, next |-> pos + 1]
        ELSE IF tk.t = "none" THEN [text |-> <<"N", "o", "n", "e">>, next |-> pos + 1]
        ELSE IF tk.t = "set"
        THEN [text |-> <<"s", "e", "t", "(", ")">>, next |-> pos + 1]
        ELSE IF tk.n = 0 THEN [text |-> <<open, close>>, next |-> pos + 1]
        ELSE LET items == ReprItems(toks, pos + 1, tk.n, tk.t = "dict")
                 \* a tuple of one element ends in a comma
                 last1 == IF tk.t = "tuple" /\ tk.n = 1 THEN <<",">> ELSE <<>>
             IN  [text |-> <<open>> \o items.text \o last1 \o <<close>>,
                  next |-> items.next]

ReprItems(toks, pos, n, isDict) ==
    LET key == IF isDict THEN Repr(toks, pos).text \o <<":", " ">> ELSE <<>>
        v == Repr(toks, IF isDict THEN pos + 1 ELSE pos)
        one == key \o v.text
    IN  IF n = 1 THEN [text |-> one, next |-> v.next]
        ELSE LET rest == ReprItems(toks, v.next, n - 1, isDict)
             IN  [text |-> one \o <<",", " ">> \o rest.text, next |-> rest.next]

\* str(response) of the values that are neither str nor dict nor list.
PyStrOf(v) == Repr(v, 1).text

\* json.dumps raises TypeError on an object that is not JSON serializable.
Serializable(v) == \A i \in 1..Len(v) : v[i].t # "set"

\* Mutant of JsonDumps: str(response) is used for dicts and lists as well.
JsonDumpsAsStr(v) == Repr(v, 1).text

\* json.dumps(response, indent=2)
JsonDumps(v) == Dump(v, 1, 0).text

----------------------------------------------------------------------------
(* src/standalone_agent.py *)

\* What one invocation of an agent's process_command does: it returns a value
\* or raises an exception with a text.
Returns(v) == [raises |-> FALSE, value |-> v, text |-> <<>>]
Raises(text) == [raises |-> TRUE, value |-> PyNone, text |-> text]

\* What process_user_input hands to its caller.
\* invoked: how often process_command was called; args: the arguments of
\* each of these calls.
Responded(text, invoked) ==
    [raised |-> FALSE, exc |-> "None", text |-> text, invoked |-> invoked,
     args |-> <<>>]
Propagated(exc) ==
    [raised |-> TRUE, exc |-> exc, text |-> <<>>, invoked |-> 0, args |-> <<>>]

\* agent['config']['name'] of the logging call (line 191), outside the try.
ConfigNameLookup(agent) ==
    IF "config" \notin agent.keys THEN "KeyError"
    ELSE IF agent.config.kind # "object" THEN "TypeError"
    ELSE IF "name" \notin DOMAIN agent.config.get THEN "KeyError"
    ELSE "None"

\* process_user_input(agent, user_input); `outcome` is what the agent's
\* process_command does when it is called with (agent, user_input).
process_user_input(agent, user_input, outcome) ==
    LET response == outcome.value
        notCallable ==
            <<"'", "i", "n", "t", "'", " ", "o", "b", "j", "e", "c", "t", " ", "i", "s",
              " ", "n", "o", "t", " ", "c", "a", "l", "l", "a", "b", "l", "e">>
        notSerializable ==
            <<"O", "b", "j", "e", "c", "t", " ", "o", "f", " ", "t", "y", "p", "e", " ",
              "s", "e", "t", " ", "i", "s", " ", "n", "o", "t", " ", "J", "S", "O", "N",
              " ", "s", "e", "r", "i", "a", "l", "i", "z", "a", "b", "l", "e">>
        \* agent["process_command"](agent, user_input), line 195
        call == [agent |-> agent.id, command |-> user_input]
        r ==
            IF ConfigNameLookup(agent) # "None" THEN Propagated(ConfigNameLookup(agent))
            ELSE IF "process_command" \notin agent.keys
            THEN Responded(ErrorPrefix \o <<"'", "p", "r", "o", "c", "e", "s", "s", "_",
                                             "c", "o", "m", "m", "a", "n", "d", "'">>, 0)
            ELSE IF ~agent.process_command.callable
            THEN Responded(ErrorPrefix \o notCallable, 0)
            ELSE IF outcome.raises THEN Responded(ErrorPrefix \o outcome.text, 1)
            ELSE IF TypeOf(response) = "str" THEN Responded(response[1].s, 1)
            ELSE IF TypeOf(response) \in {"dict", "list"}
            THEN IF Serializable(response) THEN Responded(JsonDumps(response), 1)
                 ELSE Responded(ErrorPrefix \o notSerializable, 1)
            ELSE Responded(PyStrOf(response), 1)
    IN  [r EXCEPT !.args = IF r.invoked = 1 THEN <<call>> ELSE <<>>]

----------------------------------------------------------------------------
(* src/standalone_agent.py: the demo agent *)

UpperCase ==
    <<"A", "B", "C", "D", "E", "F", "G", "H", "I", "J", "K", "L", "M", "N",
      "O", "P", "Q", "R", "S", "T", "U", "V", "W", "X", "Y", "Z">>
LowerCase ==
    <<"a", "b", "c", "d", "e", "f", "g", "h", "i", "j", "k", "l", "m", "n",
      "o", "p", "q", "r", "s", "t", "u", "v", "w", "x", "y", "z">>

\* str.lower(), on ASCII text.
Lower(text) ==
    [i \in 1..Len(text) |->
        IF text[i] \in Range(UpperCase)
        THEN LowerCase[CHOOSE k \in 1..Len(UpperCase) : UpperCase[k] = text[i]]
        ELSE text[i]]

\* text.startswith(prefix)
StartsWith(text, prefix) ==
    Len(text) >= Len(prefix) /\ SubSeq(text, 1, Len(prefix)) = prefix

\* needle in text
InText(needle, text) ==
    \E i \in 1..(Len(text) - Len(needle) + 1) :
        SubSeq(text, i, i + Len(needle) - 1) = needle

WhiteSpace == {" ", "\n", "\t"}

RECURSIVE LStrip(_)
LStrip(text) ==
    IF text # <<>> /\ Head(text) \in WhiteSpace THEN LStrip(Tail(text)) ELSE text

RECURSIVE RStrip(_)
RStrip(text) ==
    IF text # <<>> /\ text[Len(text)] \in WhiteSpace
    THEN RStrip(SubSeq(text, 1, Len(text) - 1)) ELSE text

\* str.strip()
Strip(text) == RStrip(LStrip(text))

RECURSIVE Split(_, _)
\* str.split(): the words of the text, `word` being the word read so far.
Split(text, word) ==
    IF text = <<>> THEN (IF word = <<>> THEN <<>> ELSE <<word>>)
    ELSE IF Head(text) \in WhiteSpace
    THEN (IF word = <<>> THEN <<>> ELSE <<word>>) \o Split(Tail(text), <<>>)
    ELSE Split(Tail(text), Append(word, Head(text)))

\* float(word) accepts the word; here for words of digits, which is what the
\* commands of the model hold besides words of letters.
IsNumber(word) == word # <<>> /\ \A i \in 1..Len(word) : word[i] \in Range(Digit)

RECURSIVE NumberOf(_, _)
NumberOf(word, acc) ==
    IF word = <<>> THEN acc
    ELSE NumberOf(Tail(word),
                  10 * acc + (CHOOSE d \in 0..9 : Digit[d + 1] = Head(word)))

\* str() of a float that is a whole number.
FloatText(n) == Digits(n) \o <<".", "0">>

\* The config of the demo agent (lines 265-269), its values as texts.
DemoConfig ==
    JsonObject([name |-> <<"D", "e", "m", "o", " ", "A", "g", "e", "n", "t">>,
                description |->
                    <<"A", " ", "s", "i", "m", "p", "l", "e", " ", "d", "e",
                      "m", "o", " ", "a", "g", "e", "n", "t", " ", "f", "o",
                      "r", " ", "t", "e", "s", "t", "i", "n", "g">>,
                version |-> <<"1", ".", "0", ".", "0">>])

\* create_demo_agent(): the record, `id` its identity.
create_demo_agent(id) ==
    [id |-> id, config |-> DemoConfig, dir |-> "src",
     keys |-> {"config", "dir", "process_command"},
     process_command |-> [unit |-> id, callable |-> TRUE]]

\* Mutant of demo_process_command: the echo branch keeps the command's own
\* spelling and cuts after "echo" instead of after "echo ".
demo_process_command_EchoRaw(agent, command) ==
    IF StartsWith(Lower(command), <<"e", "c", "h", "o", " ">>)
    THEN <<"E", "c", "h", "o", ":", " ">> \o SubSeq(command, 5, Len(command))
    ELSE <<>>

\* The process_command of the demo agent (lines 219-261).
demo_process_command(agent, command) ==
    LET cmd == Lower(command)
        name == agent.config.get["name"]
        parts == Split(Strip(SubSeq(cmd, 5, Len(cmd))), <<>>)
        x == NumberOf(parts[1], 0)
        y == NumberOf(parts[2], 0)
    IN  IF command = <<>>
        THEN <<"P", "l", "e", "a", "s", "e", " ", "e", "n", "t", "e", "r",
               " ", "a", " ", "c", "o", "m", "m", "a", "n", "d", ".">>
        ELSE IF InText(<<"h", "e", "l", "l", "o">>, cmd)
        THEN <<"H", "e", "l", "l", "o", "!", " ", "I", "'", "m", " ">>
             \o name \o
             <<",", " ", "a", " ", "d", "e", "m", "o", " ", "a", "g", "e",
               "n", "t", ".">>
        ELSE IF InText(<<"h", "e", "l", "p">>, cmd)
        THEN <<"D", "e", "m", "o", " ", "A", "g", "e", "n", "t", " ", "H",
               "e", "l", "p", ":", "\n", "-", " ", "h", "e", "l", "l", "o",
               ":", " ", "S", "a", "y", " ", "h", "e", "l", "l", "o", " ",
               "t", "o", " ", "t", "h", "e", " ", "a", "g", "e", "n", "t",
               "\n", "-", " ", "h", "e", "l", "p", ":", " ", "S", "h", "o",
               "w", " ", "t", "h", "i", "s", " ", "h", "e", "l", "p", " ",
               "m", "e", "s", "s", "a", "g", "e", "\n", "-", " ", "s", "t",
               "a", "t", "u", "s", ":", " ", "S", "h", "o", "w", " ", "a",
               "g", "e", "n", "t", " ", "s", "t", "a", "t", "u", "s", "\n",
               "-", " ", "e", "c", "h", "o", " ", "[", "t", "e", "x", "t",
               "]", ":", " ", "E", "c", "h", "o", " ", "b", "a", "c", "k",
               " ", "t", "h", "e", " ", "t", "e", "x", "t", "\n", "-", " ",
               "a", "d", "d", " ", "[", "x", "]", " ", "[", "y", "]", ":",
               " ", "A", "d", "d", " ", "t", "w", "o", " ", "n", "u", "m",
               "b", "e", "r", "s">>
        ELSE IF InText(<<"s", "t", "a", "t", "u", "s">>, cmd)
        THEN <<"A", "g", "e", "n", "t", " ", "s", "t", "a", "t", "u", "s",
               ":", " ", "R", "u", "n", "n", "i", "n", "g", "\n", "N", "a",
               "m", "e", ":", " ">>
             \o name \o <<"\n", "V", "e", "r", "s", "i", "o", "n", ":", " ">>
             \o agent.config.get["version"]
        ELSE IF StartsWith(cmd, <<"e", "c", "h", "o", " ">>)
        THEN <<"E", "c", "h", "o", ":", " ">> \o Strip(SubSeq(cmd, 6, Len(cmd)))
        ELSE IF StartsWith(cmd, <<"a", "d", "d", " ">>)
        THEN IF Len(parts) < 2
             THEN <<"P", "l", "e", "a", "s", "e", " ", "p", "r", "o", "v",
                    "i", "d", "e", " ", "t", "w", "o", " ", "n", "u", "m",
                    "b", "e", "r", "s", ".">>
             ELSE IF ~(IsNumber(parts[1]) /\ IsNumber(parts[2]))
             THEN <<"P", "l", "e", "a", "s", "e", " ", "p", "r", "o", "v",
                    "i", "d", "e", " ", "v", "a", "l", "i", "d", " ", "n",
                    "u", "m", "b", "e", "r", "s", ".">>
             ELSE FloatText(x) \o <<" ", "+", " ">> \o FloatText(y)
                  \o <<" ", "=", " ">> \o FloatText(x + y)
        ELSE <<"I", " ", "d", "o", "n", "'", "t", " ", "u", "n", "d", "e",
               "r", "s", "t", "a", "n", "d", " ", "'">>
             \o cmd \o
             <<"'", ".", "\n", "T", "y", "p", "e", " ", "'", "h", "e", "l",
               "p", "'", " ", "t", "o", " ", "s", "e", "e", " ", "a", "v",
               "a", "i", "l", "a", "b", "l", "e", " ", "c", "o", "m", "m",
               "a", "n", "d", "s", ".">>

----------------------------------------------------------------------------
(* The filesystems the program is started on *)

DefaultDir(n) == DirNode(ValidManifest(n), ValidSource(NoKeys))
DefaultFile(n) == FileNode(ValidSource(FullConsts(n)))

Alpha == AgentPath("alpha")
Beta == AgentPath("beta")
XFoo == Path("x", "foo", ".py")
YFoo == Path("y", "foo", ".py")

Fs(a, b, x, y) ==
    [p \in Paths |-> IF p = Alpha THEN a ELSE IF p = Beta THEN b
                     ELSE IF p = XFoo THEN x ELSE y]

\* One path holds any node of its kind, the others one of a few.
Filesystems ==
    {Fs(a, DefaultDir("other"), DefaultFile("demo"), Missing) :
        a \in DirNodes \cup {Missing}}
    \cup {Fs(a, DirNode(ConfigInvalid, ValidSource(NoKeys)), DefaultFile("demo"), Missing) :
        a \in {DefaultDir("demo"), DirNode(ConfigAbsent, ValidSource(NoKeys)),
               DirNode(ValidManifest("demo"),
                       Source(FALSE, {"process_command", "initialize"}, NoKeys,
                              TRUE, TRUE)),
               Missing}}
    \cup {Fs(DefaultDir("demo"), Missing, x, DefaultFile("other")) :
        x \in FileNodes \cup {Missing}}

----------------------------------------------------------------------------
(* State *)

NoLoad ==
    [ok |-> FALSE, agent |-> NoAgent, err |-> NoError, trace |-> <<>>, init |-> <<>>]
NoResponse ==
    [raised |-> FALSE, exc |-> "None", text |-> <<>>, invoked |-> 0, args |-> <<>>]
NoMapping == [d \in {} |-> NoAgent]

\* The record of an operation: its arguments and what its caller sees.  load:
\* the outcome of a load, or the record a lookup gave; mapping, attempts: the
\* result of an enumeration and the directories it tried; status, response,
\* cmd, outcome: a dispatch.
Op(op, arg) ==
    [op |-> op, arg |-> arg, load |-> NoLoad, mapping |-> NoMapping,
     attempts |-> <<>>, status |-> 0, response |-> NoResponse, cmd |-> <<>>,
     outcome |-> [raises |-> FALSE, value |-> PyNone, text |-> <<>>]]

\* The threads that call into the program concurrently.
Tids == {"t1", "t2"}

\* A thread: the call it is in (op), where it is in it (pc), the value it
\* holds in a local or on its stack (local) and what the call returned (result).
Idle == [op |-> "none", pc |-> "idle", local |-> NoMapping, made |-> 0, result |-> 0]

Seen(r) ==
    [ok |-> r.ok, agent |-> r.agent, err |-> r.err, trace |-> r.trace, init |-> r.init]

Count(trace, step) == Cardinality({i \in 1..Len(trace) : trace[i] = step})

Init ==
    /\ fs \in Filesystems
    /\ loaded_agents = NoMapping
    /\ loader = [created |-> FALSE, id |-> 0, agents |-> NoMapping]
    /\ sys_modules = [m \in ModuleNames |-> NoModule]
    /\ init_calls = [p \in Paths |-> 0]
    /\ next_id = 1
    /\ calls = 0
    /\ last = Op("start", "")
    /\ threads = [t \in Tids |-> Idle]

----------------------------------------------------------------------------
(* Direct calls of the loaders *)

\* The effect of one load call on the state, r being what the loader did.
Loaded(op, p, r) ==
    /\ calls < MaxCalls
    /\ sys_modules' = r.mods
    /\ init_calls' = [init_calls EXCEPT ![p] = @ + Count(r.trace, "initialize")]
    /\ next_id' = next_id + 1
    /\ calls' = calls + 1
    /\ last' = [Op(op, p.full) EXCEPT !.load = Seen(r)]
    /\ UNCHANGED <<fs, threads, loaded_agents, loader>>

LoadAgentFromDir(p) ==
    Loaded("load_agent_from_dir", p, load_agent_from_dir(p, fs[p], sys_modules, next_id))

LoadAgentFromFile(p) ==
    Loaded("load_agent_from_file", p,
           load_agent_from_file(p, fs[p], sys_modules, next_id))

UtilsLoadAgentFromDir(p) ==
    Loaded("utils.load_agent_from_dir", p,
           utils_load_agent_from_dir(p, fs[p], sys_modules, next_id))

UtilsLoadAgentFromFile(p) ==
    Loaded("utils.load_agent_from_file", p,
           utils_load_agent_from_file(p, fs[p], sys_modules, next_id))

----------------------------------------------------------------------------
(* src/web_interface.py: the start-up enumeration *)

\* agents[agent_dir] = agent
Put(agents, d, agent) ==
    [k \in DOMAIN agents \cup {d} |-> IF k = d THEN agent ELSE agents[k]]

RECURSIVE LoadEachAborts(_, _, _, _, _, _)
\* Mutant of LoadEach: no try/except around the load, the first failure ends
\* the loop and reaches the caller.
LoadEachAborts(agent_dirs, files, mods, id, agents, attempts) ==
    IF agent_dirs = <<>>
    THEN [raised |-> FALSE, agents |-> agents, mods |-> mods, attempts |-> attempts]
    ELSE LET agent_dir == Head(agent_dirs)
             agent_path == AgentPath(agent_dir)
             r == utils_load_agent_from_dir(agent_path, files[agent_path], mods, id)
             att == Append(attempts, [dir |-> agent_dir, load |-> Seen(r)])
         IN  IF r.ok
             THEN LoadEachAborts(Tail(agent_dirs), files, r.mods, id + 1,
                                 Put(agents, agent_dir, r.agent), att)
             ELSE [raised |-> TRUE, agents |-> NoMapping, mods |-> r.mods,
                   attempts |-> att]

RECURSIVE LoadEach(_, _, _, _, _, _)
\* The for loop of load_all_agents (lines 75-85) over agent_dirs: a load that
\* raises is logged and the loop goes on with the next directory.
LoadEach(agent_dirs, files, mods, id, agents, attempts) ==
    IF agent_dirs = <<>>
    THEN [raised |-> FALSE, agents |-> agents, mods |-> mods, attempts |-> attempts]
    ELSE LET agent_dir == Head(agent_dirs)
             agent_path == AgentPath(agent_dir)
             r == utils_load_agent_from_dir(agent_path, files[agent_path], mods, id)
             att == Append(attempts, [dir |-> agent_dir, load |-> Seen(r)])
         IN  LoadEach(Tail(agent_dirs), files, r.mods, id + 1,
                      IF r.ok THEN Put(agents, agent_dir, r.agent) ELSE agents, att)

\* load_all_agents(), os.listdir(agents_dir) returning `listing`.
load_all_agents(files, listing, mods, id) ==
    LET agent_dirs == SelectSeq(listing, LAMBDA d : files[AgentPath(d)].type = "dir")
    IN  LoadEach(agent_dirs, files, mods, id, NoMapping, <<>>)

\* The orders in which os.listdir may give the entries of the agents directory.
Listings(files) ==
    LET present == {d \in DirNames : files[AgentPath(d)].type # "none"}
    IN  {l \in UNION {[1..n -> present] : n \in 0..Cardinality(present)} :
            /\ Len(l) = Cardinality(present)
            /\ Range(l) = present}

RECURSIVE CountInits(_, _)
CountInits(attempts, d) ==
    IF attempts = <<>> THEN 0
    ELSE (IF Head(attempts).dir = d THEN Count(Head(attempts).load.trace, "initialize")
          ELSE 0) + CountInits(Tail(attempts), d)

\* The main block (line 589): loaded_agents = load_all_agents()
LoadAllAgents(listing) ==
    LET r == load_all_agents(fs, listing, sys_modules, next_id)
    IN  /\ calls < MaxCalls
        /\ loaded_agents' = r.agents
        /\ sys_modules' = r.mods
        /\ init_calls' = [p \in Paths |->
                            init_calls[p]
                            + (IF p.dir = AgentsDir THEN CountInits(r.attempts, p.stem)
                               ELSE 0)]
        /\ next_id' = next_id + Len(r.attempts)
        /\ calls' = calls + 1
        /\ last' = [Op("load_all_agents", AgentsDir) EXCEPT
                        !.mapping = r.agents,
                        !.response.raised = r.raised,
                        !.attempts = [i \in 1..Len(r.attempts) |->
                                        [dir |-> r.attempts[i].dir,
                                         ok |-> r.attempts[i].load.ok,
                                         err |-> r.attempts[i].load.err]]]
        /\ UNCHANGED <<fs, threads, loader>>

----------------------------------------------------------------------------
(* Dispatch *)

Commands == {<<>>, <<"b", "o", "o", "m">>}

\* {"a": 1, "b": [2, 3]}
SampleDict ==
    PyDict(2, Key(<<"a">>) \o PyInt(1) \o Key(<<"b">>) \o PyList(PyInt(2) \o PyInt(3)))

\* {"q": "a\"b\\", "e": {}, "n": null, "l": [12, []]}
NestedDict ==
    PyDict(4, Key(<<"q">>) \o PyStr(<<"a", "\"", "b", "\\">>)
              \o Key(<<"e">>) \o PyDict(0, <<>>)
              \o Key(<<"n">>) \o PyNone
              \o Key(<<"l">>) \o <<Tok("list", <<>>, 2)>> \o PyInt(12) \o PyList(<<>>))

\* What process_command may do.
Outcomes ==
    {Returns(PyStr(<<"o", "k">>)), Returns(SampleDict), Returns(NestedDict),
     Returns(PyList(PyInt(2) \o PyInt(3))), Returns(PyList(PySet)),
     Returns(PyTuple(2, PyInt(2) \o PyInt(3))),
     Returns(<<Tok("list", <<>>, 1)>> \o PyTuple(2, PyInt(2) \o PyInt(3))),
     Returns(PyDict(1, IntKey(1) \o PyStr(<<"a">>))),
     Returns(PyInt(7)), Returns(PyNone), Raises(<<"b", "o", "o", "m">>)}

Held(agent) ==
    [ok |-> TRUE, agent |-> agent, err |-> NoError, trace |-> <<>>, init |-> <<>>]

\* process_user_input called on the record the last operation gave its caller.
ProcessUserInput(cmd, outcome) ==
    /\ calls < MaxCalls
    /\ last.load.ok
    /\ calls' = calls + 1
    /\ last' = [Op("process_user_input", "") EXCEPT
                    !.load = Held(last.load.agent),
                    !.cmd = cmd, !.outcome = outcome,
                    !.response = process_user_input(last.load.agent, cmd, outcome)]
    /\ UNCHANGED <<fs, threads, loaded_agents, loader, sys_modules, init_calls, next_id>>

RouteNames == DirNames \cup {""}

\* Mutant of ApiProcess: the route loads the agent again on every request
\* and installs the new record.
ApiProcessReloads(name, cmd, outcome) ==
    LET path == AgentPath(name)
        r == utils_load_agent_from_dir(path, fs[path], sys_modules, next_id)
        agent == IF r.ok THEN r.agent ELSE loaded_agents[name]
        out == process_user_input(agent, cmd, outcome)
    IN  /\ calls < MaxCalls
        /\ name \in DOMAIN loaded_agents
        /\ cmd # <<>>
        /\ calls' = calls + 1
        /\ loaded_agents' = [loaded_agents EXCEPT ![name] = agent]
        /\ sys_modules' = r.mods
        /\ init_calls' = [init_calls EXCEPT ![path] = @ + Count(r.trace, "initialize")]
        /\ next_id' = next_id + 1
        /\ last' = [Op("api_process", name) EXCEPT
                      !.load = [Held(agent) EXCEPT !.trace = r.trace],
                      !.cmd = cmd, !.outcome = outcome, !.response = out,
                      !.status = IF out.raised THEN 500 ELSE 200]
        /\ UNCHANGED <<fs, threads, loader>>

\* The route /api/process (web_interface.py, lines 162-201) for a request
\* {"agent": name, "command": cmd}: the lookup in loaded_agents and the dispatch.
ApiProcess(name, cmd, outcome) ==
    LET found == name \in DOMAIN loaded_agents
        r == process_user_input(loaded_agents[name], cmd, outcome)
    IN  /\ calls < MaxCalls
        /\ calls' = calls + 1
        /\ \/ /\ name = "" \/ cmd = <<>>
              /\ last' = [Op("api_process", name) EXCEPT !.status = 400, !.cmd = cmd]
           \/ /\ name # "" /\ cmd # <<>> /\ ~found
              /\ last' = [Op("api_process", name) EXCEPT !.status = 404, !.cmd = cmd]
           \/ /\ name # "" /\ cmd # <<>> /\ found
              /\ last' = [Op("api_process", name) EXCEPT
                            !.load = Held(loaded_agents[name]),
                            !.cmd = cmd, !.outcome = outcome, !.response = r,
                            !.status = IF r.raised THEN 500 ELSE 200]
        /\ UNCHANGED <<fs, threads, loaded_agents, loader, sys_modules, init_calls, next_id>>

----------------------------------------------------------------------------
(* src/standalone_agent.py: the loop that tests the demo agent *)

\* What the user may type.
DemoCommands ==
    {<<>>,
     <<"e", "c", "h", "o", " ", "h", "i">>,
     <<"E", "c", "h", "o", " ", " ", "H", "i", " ", "T", "h", "e", "r", "e",
        " ">>,
     <<"e", "c", "h", "o", " ", "h", "e", "l", "l", "o">>,
     <<"H", "E", "L", "P">>,
     <<"s", "t", "a", "t", "u", "s">>,
     <<"a", "d", "d", " ", "2", " ", "1", "3">>,
     <<"a", "d", "d", " ", "2">>,
     <<"a", "d", "d", " ", "t", "w", "o", " ", "3">>,
     <<"h", "i">>,
     <<"E", "x", "i", "t">>}

\* One round of the loop (lines 341-347) on a demo agent made by
\* create_demo_agent() (line 335): `exit` leaves the loop, any other input is
\* dispatched to the agent.
DemoLoop(user_input) ==
    LET demo_agent == create_demo_agent(next_id)
        outcome == Returns(PyStr(demo_process_command(demo_agent, user_input)))
    IN  /\ calls < MaxCalls
        /\ Lower(user_input) # <<"e", "x", "i", "t">>
        /\ calls' = calls + 1
        /\ next_id' = next_id + 1
        /\ last' = [Op("process_user_input", "demo") EXCEPT
                        !.load = Held(demo_agent),
                        !.cmd = user_input, !.outcome = outcome,
                        !.response = process_user_input(demo_agent, user_input, outcome)]
        /\ UNCHANGED <<fs, threads, loaded_agents, loader, sys_modules, init_calls>>

----------------------------------------------------------------------------
(* src/agent_loader.py: the AgentLoader singleton *)

\* get_loader(): creates the AgentLoader on first use (self.agents = {}).
GetLoader ==
    /\ calls < MaxCalls
    /\ calls' = calls + 1
    /\ loader' = IF loader.created THEN loader
                 ELSE [created |-> TRUE, id |-> next_id, agents |-> NoMapping]
    /\ next_id' = IF loader.created THEN next_id ELSE next_id + 1
    /\ last' = Op("get_loader", "")
    /\ UNCHANGED <<fs, threads, loaded_agents, sys_modules, init_calls>>

\* AgentLoader.get_agent(agent_name) and the module's get_agent(agent_name):
\* both return None.
GetAgent(name) ==
    /\ calls < MaxCalls
    /\ calls' = calls + 1
    /\ last' = Op("get_agent", name)
    /\ UNCHANGED <<fs, threads, loaded_agents, loader, sys_modules, init_calls, next_id>>

\* AgentLoader.get_all_agents(): returns self.agents.
GetAllAgents ==
    /\ calls < MaxCalls
    /\ loader.created
    /\ calls' = calls + 1
    /\ last' = [Op("get_all_agents", "") EXCEPT !.mapping = loader.agents]
    /\ UNCHANGED <<fs, threads, loaded_agents, loader, sys_modules, init_calls, next_id>>

----------------------------------------------------------------------------

Next ==
    \/ \E p \in Paths : LoadAgentFromDir(p)
    \/ \E p \in Paths : LoadAgentFromFile(p)
    \/ \E p \in Paths : UtilsLoadAgentFromDir(p)
    \/ \E p \in Paths : UtilsLoadAgentFromFile(p)
    \/ \E l \in Listings(fs) : LoadAllAgents(l)
    \/ \E c \in Commands, o \in Outcomes : ProcessUserInput(c, o)
    \/ \E n \in RouteNames, c \in Commands, o \in Outcomes : ApiProcess(n, c, o)
    \/ \E c \in DemoCommands : DemoLoop(c)
    \/ GetLoader
    \/ \E n \in DirNames : GetAgent(n)
    \/ GetAllAgents

Spec == Init /\ [][Next]_vars

----------------------------------------------------------------------------
(* Concurrent callers.  No function of the repository takes a lock, so a     *)
(* thread may be interrupted between any two statements; a step is one       *)
(* statement (or one read or write of a global) of the call the thread is in. *)

Step(t, f) == threads' = [threads EXCEPT ![t] = f]

\* get_loader(), line 60: `if _loader is None` reads the global.
GetLoaderTest(t) ==
    /\ threads[t].pc = "idle"
    /\ Step(t, [threads[t] EXCEPT !.op = "get_loader",
                                  !.pc = IF loader.created THEN "return" ELSE "construct"])
    /\ UNCHANGED <<fs, loaded_agents, loader, sys_modules, init_calls, next_id, calls, last>>

\* get_loader(), line 61, right-hand side: AgentLoader() makes a new instance.
GetLoaderConstruct(t) ==
    /\ threads[t].pc = "construct"
    /\ Step(t, [threads[t] EXCEPT !.made = next_id, !.pc = "store"])
    /\ next_id' = next_id + 1
    /\ UNCHANGED <<fs, loaded_agents, loader, sys_modules, init_calls, calls, last>>

\* get_loader(), line 61, the assignment: the global _loader is set to it.
GetLoaderStore(t) ==
    /\ threads[t].pc = "store"
    /\ loader' = [created |-> TRUE, id |-> threads[t].made, agents |-> NoMapping]
    /\ Step(t, [threads[t] EXCEPT !.pc = "return"])
    /\ UNCHANGED <<fs, loaded_agents, sys_modules, init_calls, next_id, calls, last>>

\* get_loader(), line 62: `return _loader` reads the global again.
GetLoaderReturn(t) ==
    /\ threads[t].pc = "return"
    /\ Step(t, [threads[t] EXCEPT !.result = loader.id, !.pc = "done"])
    /\ UNCHANGED <<fs, loaded_agents, loader, sys_modules, init_calls, next_id, calls, last>>

\* loaded_agents = load_all_agents(), right-hand side: the call builds its own
\* mapping, loading every directory whatever loaded_agents already holds.
ThreadLoadAll(t, listing) ==
    LET r == load_all_agents(fs, listing, sys_modules, next_id)
    IN  /\ threads[t].pc = "idle"
        /\ Step(t, [threads[t] EXCEPT !.op = "load_all_agents", !.local = r.agents,
                                      !.pc = "install"])
        /\ sys_modules' = r.mods
        /\ init_calls' = [p \in Paths |->
                            init_calls[p]
                            + (IF p.dir = AgentsDir THEN CountInits(r.attempts, p.stem)
                               ELSE 0)]
        /\ next_id' = next_id + Len(r.attempts)
        /\ UNCHANGED <<fs, loaded_agents, loader, calls, last>>

\* loaded_agents = load_all_agents(), the assignment: the global is replaced.
ThreadInstall(t) ==
    /\ threads[t].pc = "install"
    /\ loaded_agents' = threads[t].local
    /\ Step(t, [threads[t] EXCEPT !.pc = "done"])
    /\ UNCHANGED <<fs, loader, sys_modules, init_calls, next_id, calls, last>>

\* AgentLoader.get_agent(agent_name), get_agent(agent_name): return None.
ThreadGetAgent(t) ==
    /\ threads[t].pc = "idle"
    /\ Step(t, [threads[t] EXCEPT !.op = "get_agent", !.pc = "done"])
    /\ UNCHANGED <<fs, loaded_agents, loader, sys_modules, init_calls, next_id, calls, last>>

NextThreads ==
    \/ \E t \in Tids : GetLoaderTest(t)
    \/ \E t \in Tids : GetLoaderConstruct(t)
    \/ \E t \in Tids : GetLoaderStore(t)
    \/ \E t \in Tids : GetLoaderReturn(t)
    \/ \E t \in Tids : \E l \in Listings(fs) : ThreadLoadAll(t, l)
    \/ \E t \in Tids : ThreadInstall(t)
    \/ \E t \in Tids : ThreadGetAgent(t)

SpecThreads == Init /\ [][NextThreads]_vars

----------------------------------------------------------------------------
(* Properties *)

DirLoadOps == {"load_agent_from_dir", "utils.load_agent_from_dir"}
FileLoadOps == {"load_agent_from_file", "utils.load_agent_from_file"}
LoadOps == DirLoadOps \cup FileLoadOps
DispatchOps == {"process_user_input", "api_process"}

\* The path and the node the last load was called on.
LastPath == CHOOSE p \in Paths : p.full = last.arg
LastNode == fs[LastPath]
LastSource == LastNode.code

Index(trace, step) == CHOOSE i \in 1..Len(trace) : trace[i] = step

\* The process_command of the record was called and raised.
CommandRaised ==
    /\ last.op \in DispatchOps
    /\ last.response.invoked = 1
    /\ last.outcome.raises

\* C1: process_user_input never raises to its caller, whatever record and
\* command text it is given and whatever process_command returns or raises; a
\* failure of process_command comes back as 'Error processing command: '
\* followed by the failure text.
C1_DispatchNeverRaises ==
    last.op \in DispatchOps =>
        /\ ~last.response.raised
        /\ (CommandRaised => last.response.text = ErrorPrefix \o last.outcome.text)

\* C2: every successful load of a source that defines initialize invokes the
\* hook exactly once, before the record is returned, in directory form and in
\* file form, in both loader modules.
C2_InitializeOnceBeforeReturn ==
    (last.op \in LoadOps /\ last.load.ok /\ "initialize" \in LastSource.defs) =>
        /\ Count(last.load.trace, "initialize") = 1
        /\ Index(last.load.trace, "initialize") < Index(last.load.trace, "return")

\* A step of the route /api/process that found its agent in loaded_agents.
LookupStep ==
    /\ last'.op = "api_process"
    /\ calls' = calls + 1
    /\ last'.arg \in DOMAIN loaded_agents
    /\ last'.status \in {200, 500}

\* C3: a get for a name that is present in the registry returns the record
\* that is installed there, the same instance, without loading anything and
\* without running initialize again; the registry keeps its records.
C3_RefetchIdempotent ==
    [][LookupStep =>
        /\ last'.load.agent = loaded_agents[last'.arg]
        /\ last'.load.agent.id = loaded_agents[last'.arg].id
        /\ last'.load.trace = <<>>
        /\ loaded_agents' = loaded_agents
        /\ init_calls' = init_calls
        /\ sys_modules' = sys_modules
        /\ next_id' = next_id]_vars

\* A name was loaded by the enumeration, running its initialize once, and
\* then fetched: the same record, and initialize still ran once.
C3_Witness ==
    /\ last.op = "api_process"
    /\ last.status = 200
    /\ last.arg \in DOMAIN loaded_agents
    /\ last.load.agent = loaded_agents[last.arg]
    /\ "initialize" \in last.load.agent.keys
    /\ init_calls[AgentPath(last.arg)] = 1

\* A step that is a load which failed.
FailedLoadStep ==
    /\ last'.op \in LoadOps
    /\ calls' = calls + 1
    /\ ~last'.load.ok

\* C4: a load that fails hands no record to its caller, leaves the registry
\* as it was and leaves nothing behind: no module in sys.modules and no run
\* of the agent's initialize.
C4_AllOrNothing ==
    [][FailedLoadStep =>
        /\ last'.load.agent = NoAgent
        /\ loaded_agents' = loaded_agents
        /\ loader' = loader
        /\ sys_modules' = sys_modules
        /\ init_calls' = init_calls]_vars

\* The last load invoked the initialize hook of its source and the hook raised.
InitializeRaised ==
    /\ last.op \in LoadOps
    /\ Count(last.load.trace, "initialize") = 1
    /\ LastSource.init_raises

ValidDirectory(node) ==
    /\ node.type = "dir"
    /\ node.config.kind = "object"
    /\ Range(RequiredFields) \subseteq DOMAIN node.config.get
    /\ node.code.exists
    /\ "process_command" \in node.code.defs

IdentityMatches(agent, config) ==
    /\ agent.config.kind = "object"
    /\ \A f \in Range(RequiredFields) :
           f \in DOMAIN agent.config.get /\ agent.config.get[f] = config.get[f]

MandatoryContract(agent) ==
    /\ {"config", "process_command"} \subseteq agent.keys
    /\ agent.config.kind = "object"
    /\ Range(RequiredFields) \subseteq DOMAIN agent.config.get

\* C8: every record a loader returns, and every record in the registry, has
\* an identity with name, description and version, and a process_command.
C8_RecordsSatisfyContract ==
    /\ (last.op \in LoadOps /\ last.load.ok) => MandatoryContract(last.load.agent)
    /\ \A n \in DOMAIN loaded_agents : MandatoryContract(loaded_agents[n])

\* The immediate subdirectories of the agents directory.
Subdirectories == {d \in DirNames : fs[AgentPath(d)].type = "dir"}

\* The subdirectories that load when they are loaded on their own.
Loadable ==
    {d \in Subdirectories :
        utils_load_agent_from_dir(AgentPath(d), fs[AgentPath(d)],
                                  [m \in ModuleNames |-> NoModule], 0).ok}

\* C6: the enumeration tries every immediate subdirectory once, a failing
\* one stops neither the others nor the call, which never raises, and the
\* result holds exactly the subdirectories whose load succeeded, each with
\* the record loaded from it.
C6_EnumerationIsolatesFailures ==
    last.op = "load_all_agents" =>
        /\ ~last.response.raised
        /\ Len(last.attempts) = Cardinality(Subdirectories)
        /\ {last.attempts[i].dir : i \in 1..Len(last.attempts)} = Subdirectories
        /\ DOMAIN last.mapping = Loadable
        /\ DOMAIN last.mapping =
               {last.attempts[i].dir : i \in {j \in 1..Len(last.attempts) :
                                                  last.attempts[j].ok}}
        /\ \A d \in DOMAIN last.mapping : last.mapping[d].dir = AgentPath(d).full
        /\ loaded_agents = last.mapping

\* The first directory tried failed and the second, tried after it, loaded.
C6_Witness ==
    /\ last.op = "load_all_agents"
    /\ Len(last.attempts) = 2
    /\ ~last.attempts[1].ok
    /\ last.attempts[2].ok
    /\ DOMAIN last.mapping = {last.attempts[2].dir}

\* The node a directory load of the next state was called on.
NextNode == fs[CHOOSE p \in Paths : p.full = last'.arg]

MissingConfigError(dir) ==
    ValueError("Missing config.json in agent directory: " \o dir)

\* C9: a directory without config.json fails to load with the error that
\* says config.json is missing, with or without agent.py, and the registry
\* (and sys.modules) stay as they were; the enumeration reports the same
\* error for it and leaves it out.
C9_MissingConfig ==
    [][/\ (/\ last'.op \in DirLoadOps
           /\ calls' = calls + 1
           /\ NextNode.type = "dir"
           /\ NextNode.config.kind = "absent") =>
              /\ ~last'.load.ok
              /\ last'.load.agent = NoAgent
              /\ last'.load.err = MissingConfigError(last'.arg)
              /\ loaded_agents' = loaded_agents
              /\ sys_modules' = sys_modules
              /\ init_calls' = init_calls
       /\ (last'.op = "load_all_agents" /\ calls' = calls + 1) =>
              \A i \in 1..Len(last'.attempts) :
                  LET d == last'.attempts[i].dir
                  IN  fs[AgentPath(d)].config.kind = "absent" =>
                          /\ d \notin DOMAIN loaded_agents'
                          /\ last'.attempts[i].err = MissingConfigError(AgentPath(d).full)
      ]_vars

C9_Witness ==
    /\ last.op \in DirLoadOps
    /\ LastNode.type = "dir"
    /\ LastNode.config.kind = "absent"
    /\ LastNode.code.exists
    /\ last.load.err = MissingConfigError(last.arg)

\* The manifest was parsed and has no version field.
LacksVersion(node) ==
    /\ node.type = "dir"
    /\ node.config.kind \notin {"absent", "invalid"}
    /\ ~(node.config.kind = "object" /\ "version" \in DOMAIN node.config.get)

HasField(config, f) == config.kind = "object" /\ f \in DOMAIN config.get

MissingFieldError(f, dir) ==
    ValueError("Missing required field '" \o f \o "' in config: "
               \o Join(dir, "config.json"))

\* C10: a directory whose manifest lacks version fails to load with the
\* config-incomplete error; the error names a required field that is really
\* missing from the manifest, and it names version when name and description
\* are there.
C10_MissingVersionNamed ==
    (last.op \in DirLoadOps /\ LacksVersion(LastNode)) =>
        /\ ~last.load.ok
        /\ \E f \in Range(RequiredFields) :
               /\ last.load.err = MissingFieldError(f, last.arg)
               /\ ~HasField(LastNode.config, f)
               /\ (HasField(LastNode.config, "name")
                   /\ HasField(LastNode.config, "description")) => f = "version"

\* The error load_agent_from_file raises for a missing AGENT_* attribute.
MissingAttributeError(a, file) ==
    ValueError("Error loading agent module: Missing required attribute '" \o a
               \o "' in agent module: " \o file)

\* The last load was a file-form load of a file that lacks an AGENT_* constant.
LacksAttribute ==
    /\ last.op \in FileLoadOps
    /\ LastNode.type = "file"
    /\ MissingAttributes(LastSource) # <<>>

\* The load failed naming a missing attribute, made no record and did not
\* call initialize.
FailedNamingAttribute ==
    /\ ~last.load.ok
    /\ last.load.agent = NoAgent
    /\ \E a \in Range(MissingAttributes(LastSource)) :
           last.load.err = MissingAttributeError(a, last.arg)
    /\ Count(last.load.trace, "initialize") = 0
    /\ init_calls[LastPath] = 0

\* C11 as stated: every file that lacks one of AGENT_NAME, AGENT_DESCRIPTION,
\* AGENT_VERSION fails to load with an error naming the missing attribute,
\* without a record and without a call of its initialize.
C11_MissingAttributeNamed ==
    LacksAttribute => FailedNamingAttribute

\* C11, amended: every file that executes without raising and lacks one of
\* AGENT_NAME, AGENT_DESCRIPTION, AGENT_VERSION fails to load with the
\* ValueError that names the first missing attribute (in that order), without
\* a record and without a call of its initialize.
C11_MissingAttributeNamedAfterExec ==
    (LacksAttribute /\ ~LastSource.raises) =>
        /\ FailedNamingAttribute
        /\ last.load.err =
               MissingAttributeError(Head(MissingAttributes(LastSource)), last.arg)

\* A file that has AGENT_NAME and AGENT_DESCRIPTION but no AGENT_VERSION, and
\* defines process_command and initialize, was loaded and refused.
C11_Witness ==
    /\ LacksAttribute
    /\ ~LastSource.raises
    /\ MissingAttributes(LastSource) = <<"AGENT_VERSION">>
    /\ {"process_command", "initialize"} \subseteq LastSource.defs
    /\ last.load.err = MissingAttributeError("AGENT_VERSION", last.arg)

\* The AgentLoader instances constructed so far.
Instances == {threads[t].made : t \in Tids} \ {0}

\* C13: whatever the interleaving of concurrent get_loader calls, at most one
\* AgentLoader is ever constructed, every finished call has returned that
\* instance, and once _loader is set it is never replaced.
C13_SingleInitialization ==
    [][/\ Cardinality(Instances') <= 1
       /\ \A t \in Tids :
              (threads'[t].op = "get_loader" /\ threads'[t].pc = "done") =>
                  /\ loader'.created
                  /\ threads'[t].result = loader'.id
                  /\ Instances' = {loader'.id}
       /\ loader.created => loader' = loader]_vars

\* C12: when callers race to load the same name, the record installed for a
\* name is never replaced by another one, and every caller that has finished
\* holds, for each name it loaded, the record that is installed.
C12_ConcurrentLoadsAtomic ==
    [][/\ \A n \in DOMAIN loaded_agents :
              n \in DOMAIN loaded_agents' /\ loaded_agents'[n].id = loaded_agents[n].id
       /\ \A t \in Tids :
              (threads'[t].op = "load_all_agents" /\ threads'[t].pc = "done") =>
                  \A n \in DOMAIN threads'[t].local :
                      /\ n \in DOMAIN loaded_agents'
                      /\ loaded_agents'[n].id = threads'[t].local[n].id]_vars

\* The source file a load of `arg` executes.
UnitFile(op, arg) == IF op \in DirLoadOps THEN Join(arg, "agent.py") ELSE arg

\* A successful load that follows a successful load from another path.
SecondLoadStep ==
    /\ last.op \in LoadOps /\ last.load.ok
    /\ last'.op \in LoadOps /\ last'.load.ok
    /\ calls' = calls + 1
    /\ last'.arg # last.arg

\* C14: after two agents were loaded from different paths, the second load
\* has not replaced the code unit the first one registered: every module the
\* first load put into sys.modules is still registered there.
C14_ModuleIdentitiesDistinct ==
    [][SecondLoadStep =>
          \A m \in ModuleNames :
              sys_modules[m].file = UnitFile(last.op, last.arg) =>
                  sys_modules'[m] = sys_modules[m]]_vars

\* A step that is a load of a source that raises while it is executed.
RaisingLoadStep ==
    /\ last'.op \in LoadOps
    /\ calls' = calls + 1
    /\ Count(last'.load.trace, "exec_module") = 1
    /\ LET node == NextNode IN node.code.exists /\ node.code.raises

\* C15: when the source raises while it is executed the load fails with
\* 'Error loading agent module: ' followed by the original failure text, and
\* the partly executed module is not left registered in sys.modules.
C15_RaisingUnitDiscarded ==
    [][RaisingLoadStep =>
          /\ ~last'.load.ok
          /\ last'.load.err = ValueError("Error loading agent module: " \o ExecFailure)
          /\ \A m \in ModuleNames :
                 sys_modules'[m].file = UnitFile(last'.op, last'.arg) =>
                     sys_modules'[m] = sys_modules[m]]_vars

\* C16: a get for a name that is not loaded yet loads the agent from the
\* directory of that name: it returns the loaded record when the load
\* succeeds, and reports not found, raising nothing, when the load fails.
C16_GetDelegatesToLoader ==
    (last.op = "get_agent" /\ last.arg \notin DOMAIN loader.agents) =>
        /\ ~last.response.raised
        /\ last.arg \in Loadable =>
               /\ last.load.ok
               /\ last.load.agent # NoAgent
               /\ last.load.agent.dir = AgentPath(last.arg).full
        /\ last.arg \notin Loadable => (~last.load.ok /\ last.load.agent = NoAgent)

\* The error a loader raises when the module has no process_command.
MissingEntryPointError(path) ==
    ValueError("Error loading agent module: Missing required function "
               \o "'process_command' in agent module: " \o path)

\* C17: a source whose process_command is absent or is not callable never
\* yields a record: once the load has got as far as the entry point, it fails
\* with the missing-entry-point error that names the path of the source.
C17_EntryPointCallable ==
    (/\ last.op \in LoadOps
     /\ LastSource.exists
     /\ ~("process_command" \in LastSource.defs /\ LastSource.callable_pc)) =>
        /\ ~last.load.ok
        /\ last.load.agent = NoAgent
        /\ Count(last.load.trace, "hasattr:process_command") = 1 =>
               last.load.err = MissingEntryPointError(UnitFile(last.op, last.arg))

----------------------------------------------------------------------------
(* A generic JSON parser, to read back the texts process_user_input returns *)

At(text, pos) == IF pos \in 1..Len(text) THEN text[pos] ELSE ""

NoParse == [ok |-> FALSE, toks |-> <<>>, chars |-> <<>>, n |-> 0, next |-> 0]

RECURSIVE SkipSpace(_, _)
SkipSpace(text, pos) ==
    IF At(text, pos) \in {" ", "\n"} THEN SkipSpace(text, pos + 1) ELSE pos

RECURSIVE ParseChars(_, _, _)
\* The characters of a string up to its closing quote, escapes undone.
ParseChars(text, pos, acc) ==
    LET c == At(text, pos)
        e == At(text, pos + 1)
    IN  IF c \in {"", "\n"} THEN NoParse
        ELSE IF c = "\"" THEN [NoParse EXCEPT !.ok = TRUE, !.chars = acc, !.next = pos + 1]
        ELSE IF c # "\\" THEN ParseChars(text, pos + 1, Append(acc, c))
        ELSE IF e \in {"\"", "\\"} THEN ParseChars(text, pos + 2, Append(acc, e))
        ELSE IF e = "n" THEN ParseChars(text, pos + 2, Append(acc, "\n"))
        ELSE NoParse

DigitValue(c) == CHOOSE d \in 0..9 : Digit[d + 1] = c

RECURSIVE ParseDigits(_, _, _)
ParseDigits(text, pos, acc) ==
    IF At(text, pos) \in Range(Digit)
    THEN ParseDigits(text, pos + 1, 10 * acc + DigitValue(At(text, pos)))
    ELSE [NoParse EXCEPT !.ok = TRUE, !.n = acc, !.next = pos]

RECURSIVE ParseValue(_, _), ParseItems(_, _, _)
\* The JSON value that starts at text[pos], as a term.
ParseValue(text, pos) ==
    LET c == At(text, pos)
        isDict == c = "{"
        close == IF isDict THEN "}" ELSE "]"
        first == SkipSpace(text, pos + 1)
        s == ParseChars(text, pos + 1, <<>>)
        d == ParseDigits(text, pos, 0)
        items == ParseItems(text, first, isDict)
    IN  IF c = "\""
        THEN IF s.ok THEN [s EXCEPT !.toks = PyStr(s.chars)] ELSE NoParse
        ELSE IF c \in Range(Digit) THEN [d EXCEPT !.toks = PyInt(d.n)]
        ELSE IF <<c, At(text, pos + 1), At(text, pos + 2), At(text, pos + 3)>>
                    = <<"n", "u", "l", "l">>
        THEN [NoParse EXCEPT !.ok = TRUE, !.toks = PyNone, !.next = pos + 4]
        ELSE IF c \notin {"{", "["} THEN NoParse
        ELSE IF At(text, first) = close
        THEN [NoParse EXCEPT !.ok = TRUE, !.next = first + 1,
                             !.toks = <<Tok(IF isDict THEN "dict" ELSE "list", <<>>, 0)>>]
        ELSE IF ~items.ok THEN NoParse
        ELSE [items EXCEPT !.toks = <<Tok(IF isDict THEN "dict" ELSE "list", <<>>, items.n)>>
                                    \o items.toks]

\* The items of an object or array from text[pos] to its closing bracket.
ParseItems(text, pos, isDict) ==
    LET k == ParseChars(text, pos + 1, <<>>)
        colon == SkipSpace(text, k.next)
        keyOk == At(text, pos) = "\"" /\ k.ok /\ At(text, colon) = ":"
        v == ParseValue(text, IF isDict THEN SkipSpace(text, colon + 1) ELSE pos)
        one == IF isDict THEN Key(k.chars) \o v.toks ELSE v.toks
        after == SkipSpace(text, v.next)
        rest == ParseItems(text, SkipSpace(text, after + 1), isDict)
    IN  IF isDict /\ ~keyOk THEN NoParse
        ELSE IF ~v.ok THEN NoParse
        ELSE IF At(text, after) = (IF isDict THEN "}" ELSE "]")
        THEN [NoParse EXCEPT !.ok = TRUE, !.toks = one, !.n = 1, !.next = after + 1]
        ELSE IF At(text, after) # "," \/ ~rest.ok THEN NoParse
        ELSE [rest EXCEPT !.toks = one \o rest.toks, !.n = rest.n + 1]

\* json.loads(text): the value, when the whole text is one JSON document.
JsonLoads(text) ==
    LET r == ParseValue(text, SkipSpace(text, 1))
    IN  IF r.ok /\ SkipSpace(text, r.next) = Len(text) + 1
        THEN [ok |-> TRUE, value |-> r.toks]
        ELSE [ok |-> FALSE, value |-> <<>>]

\* process_command was called and returned a value.
CommandReturned ==
    /\ last.op \in DispatchOps
    /\ last.response.invoked = 1
    /\ ~last.outcome.raises

\* The value is a mapping or a sequence, of data the JSON encoder accepts.
Structured(v) ==
    /\ TypeOf(v) \in {"dict", "list", "tuple"}
    /\ \A i \in 1..Len(v) : v[i].t # "set"

\* The value is a dict or a list, of dicts with str keys, lists, strs, ints
\* and None.
PlainJson(v) ==
    /\ TypeOf(v) \in {"dict", "list"}
    /\ \A i \in 1..Len(v) : v[i].t \in {"dict", "list", "key", "str", "int", "none"}

RoundTrips == JsonLoads(last.response.text) = [ok |-> TRUE, value |-> last.outcome.value]

\* C18 as stated: when process_command returns a mapping or a sequence of
\* JSON-representable data, a JSON parser rebuilds an equal value from the
\* text process_user_input returns.
C18_StructuredRoundTrip ==
    (CommandReturned /\ Structured(last.outcome.value)) => RoundTrips

\* C18, amended: when process_command returns a dict or a list built from
\* dicts with str keys, lists, strs, ints and None, a JSON parser rebuilds an
\* equal value from the text process_user_input returns.
C18_PlainJsonRoundTrip ==
    (CommandReturned /\ PlainJson(last.outcome.value)) => RoundTrips

\* {"a": 1, "b": [2, 3]} was returned, dispatched as indented JSON and read back.
C18_Witness ==
    /\ CommandReturned
    /\ last.outcome.value = SampleDict
    /\ Len(last.response.text) > 20
    /\ JsonLoads(last.response.text).value = SampleDict

\* C19: when process_command returns a text, process_user_input returns that
\* very text; and the demo agent, which answers an input that starts with
\* 'echo ' with 'Echo: ' and the rest of the input, answers 'echo hi' with
\* 'Echo: hi'.
C19_TextUnchanged ==
    /\ (CommandReturned /\ TypeOf(last.outcome.value) = "str") =>
           /\ ~last.response.raised
           /\ last.response.text = last.outcome.value[1].s
    /\ (/\ last.op = "process_user_input"
        /\ last.arg = "demo"
        /\ last.cmd = <<"e", "c", "h", "o", " ", "h", "i">>) =>
           last.response.text = <<"E", "c", "h", "o", ":", " ", "h", "i">>

\* 'echo hi' was dispatched to the demo agent and answered.
C19_Witness ==
    /\ last.op = "process_user_input"
    /\ last.arg = "demo"
    /\ last.cmd = <<"e", "c", "h", "o", " ", "h", "i">>
    /\ last.response.invoked = 1
    /\ Len(last.response.text) = 8

\* A dispatch of a command to a record: process_user_input was called.
Dispatched == last.op \in DispatchOps /\ last.load.ok

\* C20: every call of process_user_input calls the record's process_command
\* exactly once, with the record and the unchanged command text, whether the
\* call returns or raises.
C20_InvokedExactlyOnce ==
    Dispatched =>
        /\ last.response.invoked = 1
        /\ last.response.args = <<[agent |-> last.load.agent.id, command |-> last.cmd]>>

\* C21: after a successful load, of a directory or of a file and by either
\* loader module, the record holds the key initialize, cleanup or get_status
\* if and only if the source defines that name.
C21_HooksAttachedWhenDefined ==
    (last.op \in LoadOps /\ last.load.ok) =>
        \A f \in Range(OptionalFunctions) :
            f \in last.load.agent.keys <=> f \in LastSource.defs

\* C22: every key of the mapping the enumeration returns equals the name in
\* the manifest of the record it maps to.
C22_KeyedByAgentName ==
    last.op = "load_all_agents" =>
        \A k \in DOMAIN last.mapping :
            /\ HasField(last.mapping[k].config, "name")
            /\ k = last.mapping[k].config.get["name"]

\* The error of a load whose path does not exist.
InvalidPathError(op, path) ==
    IF op \in DirLoadOps THEN ValueError("Agent directory does not exist: " \o path)
    ELSE ValueError("Agent file does not exist: " \o path)

\* C23: a load on a path at which there is neither a directory nor a file
\* fails with the error that names the path as not existing, and the test
\* that finds this is the only step of the load: no manifest is looked for
\* or read and no agent code is executed.
C23_InvalidPathFailsFirst ==
    (last.op \in LoadOps /\ LastNode.type = "none") =>
        /\ ~last.load.ok
        /\ last.load.agent = NoAgent
        /\ last.load.err = InvalidPathError(last.op, last.arg)
        /\ last.load.trace
               = <<IF last.op \in DirLoadOps THEN "isdir" ELSE "isfile", "raise">>
        /\ \A m \in ModuleNames : sys_modules[m].file # UnitFile(last.op, last.arg)

\* A directory-form load was called on a path where nothing exists, and failed.
C23_Witness ==
    /\ last.op \in DirLoadOps
    /\ LastNode.type = "none"
    /\ ~last.load.ok
    /\ last.load.err.type = "ValueError"

\* C24: the dir entry of a loaded record is the path the load was called on:
\* the directory for a directory-form load, the file for a file-form load.
C24_SourceLocationIsLoadPath ==
    (last.op \in LoadOps /\ last.load.ok) => last.load.agent.dir = last.arg

\* The checks of a directory-form load, in the order of the code.
DirChecks == <<"isdir", "exists:config.json", "json.load", "check_fields", "exists:agent.py">>

InvalidConfigError(dir) ==
    ValueError("Invalid JSON in config file: " \o Join(dir, "config.json"))

MissingCodeError(dir) == ValueError("Missing agent.py in agent directory: " \o dir)

\* The config-missing, config-invalid, config-incomplete and code-missing
\* errors of a load of dir.
CheckErrors(dir) ==
    {MissingConfigError(dir), InvalidConfigError(dir), MissingCodeError(dir)}
    \cup {MissingFieldError(f, dir) : f \in Range(RequiredFields)}

\* A step that is a directory-form load.
DirLoadStep == last'.op \in DirLoadOps /\ calls' = calls + 1

\* C25: a directory-form load checks, in this order, that the directory
\* exists, that config.json is there, that it parses, that the required
\* fields are in it and that agent.py is there; each error is raised only
\* when the checks before it passed, the module is executed only when all
\* five passed, and a load that ends in one of these errors has executed no
\* agent code and invoked no initialize.
C25_ChecksBeforeCode ==
    [][DirLoadStep =>
        LET trace == last'.load.trace
            err == last'.load.err
            dir == last'.arg
            cfg == NextNode.config
            n == IF Len(trace) - 1 < Len(DirChecks) THEN Len(trace) - 1
                 ELSE Len(DirChecks)
            parsed == NextNode.type = "dir" /\ cfg.kind \notin {"absent", "invalid"}
            executed == "exec_module" \in Range(trace)
        IN  /\ SubSeq(trace, 1, n) = SubSeq(DirChecks, 1, n)
            /\ err = MissingConfigError(dir) => NextNode.type = "dir" /\ cfg.kind = "absent"
            /\ err = InvalidConfigError(dir) => NextNode.type = "dir" /\ cfg.kind = "invalid"
            /\ (\E f \in Range(RequiredFields) : err = MissingFieldError(f, dir)) =>
                   parsed /\ MissingFields(cfg) # <<>>
            /\ err = MissingCodeError(dir) =>
                   parsed /\ MissingFields(cfg) = <<>> /\ ~NextNode.code.exists
            /\ executed =>
                   /\ parsed /\ MissingFields(cfg) = <<>> /\ NextNode.code.exists
                   /\ n = Len(DirChecks)
                   /\ Index(trace, "exec_module") > Len(DirChecks)
            /\ err \in CheckErrors(dir) =>
                   /\ ~executed
                   /\ "initialize" \notin Range(trace)
                   /\ sys_modules' = sys_modules
                   /\ init_calls' = init_calls]_vars

\* A directory whose manifest passed every check and that holds no agent.py
\* failed to load, after all five checks and nothing else.
C25_Witness ==
    /\ last.op \in DirLoadOps
    /\ last.load.err = MissingCodeError(last.arg)
    /\ last.load.trace = DirChecks \o <<"raise">>
    /\ LastNode.config.kind = "object"

\* C26: a directory whose config.json parses as JSON but is not an object
\* does not load, and every record a directory-form load returns has a
\* config that is a mapping with name, description and version.
C26_NonMappingManifestRejected ==
    last.op \in DirLoadOps =>
        /\ (LastNode.type = "dir" /\ LastNode.config.kind \in {"list", "string", "scalar"})
               => ~last.load.ok
        /\ last.load.ok =>
               \A f \in Range(RequiredFields) : HasField(last.load.agent.config, f)

\* The last load invoked initialize.
InitializeInvoked == last.op \in LoadOps /\ Count(last.load.trace, "initialize") > 0

\* C27: when a load invokes initialize, it does so once, with one argument,
\* after the record was assembled and the optional functions were attached:
\* the record passed holds config, dir, process_command and every optional
\* function the source defines, and when the load returns, it returns the
\* record it passed, with the keys it had at the call.
C27_InitializeGetsAssembledRecord ==
    InitializeInvoked =>
        /\ Len(last.load.init) = 1
        /\ LET call == last.load.init[1]
                trace == last.load.trace
           IN  /\ Len(call.args) = 1
               /\ {"config", "dir", "process_command"} \cup OptionalKeys(LastSource)
                      \subseteq call.keys
               /\ Index(trace, "assemble") < Index(trace, "attach_hooks")
               /\ Index(trace, "attach_hooks") < Index(trace, "initialize")
               /\ last.load.ok =>
                      /\ call.args[1] = last.load.agent.id
                      /\ call.keys = last.load.agent.keys

\* A source that defines initialize, cleanup and get_status was loaded and
\* its initialize was called with the record that holds all six keys.
C27_Witness ==
    /\ InitializeInvoked
    /\ last.load.ok
    /\ OptionalKeys(LastSource) = Range(OptionalFunctions)
    /\ Len(last.load.init) = 1
    /\ Cardinality(last.load.init[1].keys) = 6
    /\ last.load.init[1].args = <<last.load.agent.id>>

\* What the loader of the other module does on the inputs of a load.
Counterpart(op, path, node, mods, id) ==
    CASE op = "load_agent_from_dir" -> utils_load_agent_from_dir(path, node, mods, id)
      [] op = "utils.load_agent_from_dir" -> load_agent_from_dir(path, node, mods, id)
      [] op = "load_agent_from_file" -> utils_load_agent_from_file(path, node, mods, id)
      [] op = "utils.load_agent_from_file" -> load_agent_from_file(path, node, mods, id)

\* A step that is a load by either module.
LoadStep == last'.op \in LoadOps /\ calls' = calls + 1

\* C28: whatever a loader of one module does on a path, the loader of the
\* same form of the other module does on the same path and the same files:
\* both fail with the same error, or both return records with the same keys
\* and the same identity, after the same invocations of initialize.
C28_LoadersEquivalent ==
    [][LoadStep =>
        LET path == CHOOSE q \in Paths : q.full = last'.arg
            mine == last'.load
            other == Counterpart(last'.op, path, fs[path], sys_modules, next_id)
        IN  /\ other.ok = mine.ok
            /\ other.err = mine.err
            /\ other.agent.keys = mine.agent.keys
            /\ other.agent.config = mine.agent.config
            /\ other.init = mine.init]_vars

====
